---------------------------- MODULE Spec2Model ----------------------------
(***************************************************************************)
(* Packet ledger, aggregation counters and windowed sampler of sas26.cc.   *)
(*                                                                         *)
(* Every trace callback of the simulation script (Sent, Ok, Interf, Under, *)
(* NoMore, Busy, RequiredTransmissionsCallback, CalcPdrsPerHour) and the   *)
(* ClearData step of main are one action each; a callback runs at the      *)
(* current simulated time, which the scheduler moves on in a step of its   *)
(* own (Advance).  Times are simulated milliseconds; receive powers and    *)
(* SNRs are fixed-point thousandths of a dB(m); ratios are exact fractions *)
(* <<numerator, denominator>> in lowest terms where the source computes in *)
(* double precision.                                                       *)
(*                                                                         *)
(* Spec is the run under the default allocation scheme with the callbacks  *)
(* arriving in any order.  The other specifications are runs seen closer:  *)
(* SpecLossLog and SpecOkLog keep the reception event handled last,        *)
(* SpecTick feeds the sampler alone, SpecRun takes the timer events from   *)
(* the simulator queue as main fills it, SpecAsfa starts with sfa = "asfa" *)
(* and SpecClasses sends a packet of every AppTag value.                   *)
(***************************************************************************)
EXTENDS Integers, Sequences, FiniteSets, TLC

\* ----------------------------------------------------------------- bounds
MaxPkts == 2          \* distinct packet uids that occur in a run
MaxEvents == 3        \* events of a run that change a counter
MaxLateEvents == 5    \* the same, in a run of sends, late deliveries and
                      \* interference only

\* ------------------------------------------------ program constants/inputs
imrDelay == 60000
pccDelay == 1000
TenLogBandwidth == 50969
NoiseFigure == 6000
NumSf == 6
NumApps == 2

PktIds == 1..MaxPkts
NullPkt == 0
MsgTypes == <<"IMR", "PCC", "NONE">>
\* the AppTag each packet uid carries: uid 1 is an IMR packet, uid 2 a PCC
\* packet, uid 3 a packet of neither class, and so on in turn
MsgTypeOf(pktId) == MsgTypes[((pktId - 1) % 3) + 1]
\* the device that generates each packet uid
EdIdOf(pktId) == pktId - 1
SFs == {7, 12}
RxPowers == {-120000}
TimePoints == {0, 1, 1001, 60000, 60001}
ReqTxs == {2}
FirstAttempts == {0}
WindowCounts == {0, 50, 99, 100}

Hour == 3600000
simulationTimeSeconds == 24 * 60 * 60
\* main, lines 1048 and 1176: the time Simulator::Stop is given
StopTime == simulationTimeSeconds * 1000 + Hour
\* the end devices, by their index in the endDevices container
EdIds == {EdIdOf(pktId) : pktId \in PktIds}
\* the data rate a MAC layer has when no allocation scheme has set one
DefaultDataRate == 0
\* a device with no energy source or no radio energy model
NoModel == -1
\* what a radio energy model reports as consumed, in mJ
Energies == {0, 3, 5, 11, 24}

VARIABLES
  pktInfoMap,      \* std::map<int, PacketInfo>
  now,             \* Simulator::Now() in ms
  phase,           \* position of main: "run" (Simulator::Run) or "cleared"
  lastLoss,        \* the reception event (cause, uid, SF) reported last,
                   \* where the trace of these events is kept (SpecLossLog,
                   \* SpecOkLog)
  nSent, nRec, nRetx, nReqTx, nRecAck,
  sumDelay, sumRssi, sumPktsRssi, sumSnr, sumPktsSnr,
  nTotalPkts, nLost, nInterf, nUnder, nBusy, nNoMore, nExpired,
  nSentPerHour, nRecPerHour, pdrsPerHourVec,
  interfPerSf, underPerSf, expPerSf, busyPerSf, noMorePerSf,
  delayPerApp,
  nImrSent, nPccSent, nImrRec, nPccRec,
  events,          \* the events Simulator::Schedule and Simulator::Stop have
                   \* put in the simulator's queue and that are still to run
  sfa,             \* the spreading factor allocation scheme of the run
  dataRate,        \* the data rate of the MAC layer of each end device
  consumption,     \* double consumption: the energy total of the report
  energy           \* what the radio energy model of each end device has
                   \* consumed so far, NoModel for a device without one

ledgerVars == <<pktInfoMap>>
ackVars    == <<nReqTx, nRecAck>>
sendVars   == <<nSent, nRetx, nImrSent, nPccSent, nSentPerHour>>
recVars    == <<nRec, nImrRec, nPccRec, nRecPerHour, nExpired, expPerSf,
                sumDelay, delayPerApp, sumRssi, sumSnr>>
lqiVars    == <<nTotalPkts, sumPktsRssi, sumPktsSnr>>
lossVars   == <<nLost, nInterf, nUnder, nBusy, nNoMore,
                interfPerSf, underPerSf, busyPerSf, noMorePerSf>>
windowVars == <<pdrsPerHourVec>>
envVars    == <<now, phase, lastLoss>>
schedVars  == <<events>>
devVars    == <<sfa, dataRate, consumption, energy>>

vars == <<ledgerVars, ackVars, sendVars, recVars, lqiVars, lossVars,
          windowVars, envVars, schedVars, devVars>>

\* ---------------------------------------------------------------- helpers
RECURSIVE Gcd(_, _)
Gcd(a, b) == IF b = 0 THEN a ELSE Gcd(b, a % b)

\* the exact value n / d (d > 0, n >= 0) as a fraction in lowest terms
Ratio(n, d) == LET g == Gcd(n, d) IN <<n \div g, d \div g>>

RatioLeq(r, k) == r[1] <= k * r[2]

ZeroVec(n) == [i \in 1..n |-> 0]

RECURSIVE SumSeq(_)
SumSeq(s) == IF s = <<>> THEN 0 ELSE Head(s) + SumSeq(Tail(s))

PacketInfo(pktId, edId, txTime) ==
  [m_pktId |-> pktId, m_edId |-> edId, m_txTime |-> txTime,
   m_delay |-> -1, m_cpsrDelay |-> -1, m_status |-> "SENT"]

RxPowerToSNR(transmissionPower) ==
  transmissionPower + 174000 - TenLogBandwidth - NoiseFigure

\* variant that numbers the buckets from SF12 down
GetIndexBasedOnSfReversed(sf) == 12 - sf

GetIndexBasedOnSf(sf) == sf - 7

NoLoss == [cause |-> "none", id |-> NullPkt, sf |-> 0]
LossEvent(c, id, sf) == [cause |-> c, id |-> id, sf |-> sf]

\* Simulator::Schedule(delay, fn) and Simulator::Stop(delay) on the queue
StopEvent == [at |-> StopTime, fn |-> "Stop"]
Schedule(queue, delay, fn) == queue \cup {[at |-> now + delay, fn |-> fn]}

\* the events handled so far that changed a counter
EventCount == nSent + nRetx + nTotalPkts + nRecAck + Len(pdrsPerHourVec)
\* a run that has seen only first transmissions, deliveries after the
\* deadline and interference so far
LateRun ==
  /\ nRetx = 0 /\ nRec = 0 /\ nRecAck = 0 /\ Len(pdrsPerHourVec) = 0
  /\ nUnder = 0 /\ nNoMore = 0 /\ nBusy = 0
  /\ nTotalPkts = nExpired + nInterf
  /\ \A id \in DOMAIN pktInfoMap : pktInfoMap[id].m_txTime = 0
MoreEvents ==
  \/ EventCount < MaxEvents
  \/ LateRun /\ EventCount < MaxLateEvents

\* ------------------------------------------------------------------- Init
\* the state main has built when Simulator::Run starts, with the allocation
\* scheme the command line gave for sfa and the energy models of the devices
InitState(scheme, models) ==
  /\ pktInfoMap = <<>>
  /\ now = 0
  /\ phase = "run"
  /\ lastLoss = NoLoss
  /\ nSent = 0 /\ nRec = 0 /\ nRetx = 0 /\ nReqTx = 0 /\ nRecAck = 0
  /\ sumDelay = 0 /\ sumRssi = 0 /\ sumPktsRssi = 0
  /\ sumSnr = 0 /\ sumPktsSnr = 0
  /\ nTotalPkts = 0 /\ nLost = 0 /\ nInterf = 0 /\ nUnder = 0
  /\ nBusy = 0 /\ nNoMore = 0 /\ nExpired = 0
  /\ nSentPerHour = 0 /\ nRecPerHour = 0
  /\ pdrsPerHourVec = <<>>
  /\ interfPerSf = ZeroVec(NumSf) /\ underPerSf = ZeroVec(NumSf)
  /\ expPerSf = ZeroVec(NumSf) /\ busyPerSf = ZeroVec(NumSf)
  /\ noMorePerSf = ZeroVec(NumSf)
  /\ delayPerApp = ZeroVec(NumApps)
  /\ nImrSent = 0 /\ nPccSent = 0 /\ nImrRec = 0 /\ nPccRec = 0
  /\ events = {StopEvent}
  /\ sfa = scheme
  /\ dataRate = [d \in EdIds |-> DefaultDataRate]
  /\ consumption = 0
  /\ energy = models

\* main, lines 1166-1170: every end device gets an energy source and a
\* radio energy model, which has consumed nothing yet
InitScheme(scheme) == InitState(scheme, [d \in EdIds |-> 0])

\* line 155: no scheme unless the command line names one
Init == InitScheme("")

\* ------------------------------------------------------------------- Sent
\* variant in which a retransmission counts as a send of its window
SentCountsRetx(pktId, edId) ==
  /\ phase = "run"
  /\ IF pktId \in DOMAIN pktInfoMap
       THEN /\ MoreEvents
            /\ nRetx' = nRetx + 1
            /\ nSentPerHour' = nSentPerHour + 1
            /\ UNCHANGED <<pktInfoMap, nSent, nImrSent, nPccSent>>
       ELSE /\ MoreEvents
            /\ pktInfoMap' =
                 [x \in DOMAIN pktInfoMap \cup {pktId} |->
                    IF x = pktId THEN PacketInfo(pktId, edId, now)
                                 ELSE pktInfoMap[x]]
            /\ nImrSent' = IF MsgTypeOf(pktId) = "IMR" THEN nImrSent + 1
                                                    ELSE nImrSent
            /\ nPccSent' = IF MsgTypeOf(pktId) = "IMR" THEN nPccSent
                           ELSE IF MsgTypeOf(pktId) = "PCC" THEN nPccSent + 1
                           ELSE nPccSent
            /\ nSent' = nSent + 1
            /\ nSentPerHour' = nSentPerHour + 1
            /\ UNCHANGED nRetx
  /\ UNCHANGED <<ackVars, recVars, lqiVars, lossVars, windowVars,
                 now, phase, lastLoss, schedVars, devVars>>

\* variant in which a retransmission restarts the clock of the record
SentRestamps(pktId, edId) ==
  /\ phase = "run"
  /\ IF pktId \in DOMAIN pktInfoMap
       THEN /\ MoreEvents
            /\ nRetx' = nRetx + 1
            /\ pktInfoMap' = [pktInfoMap EXCEPT ![pktId].m_txTime = now]
            /\ UNCHANGED <<nSent, nImrSent, nPccSent, nSentPerHour>>
       ELSE /\ MoreEvents
            /\ pktInfoMap' =
                 [x \in DOMAIN pktInfoMap \cup {pktId} |->
                    IF x = pktId THEN PacketInfo(pktId, edId, now)
                                 ELSE pktInfoMap[x]]
            /\ nImrSent' = IF MsgTypeOf(pktId) = "IMR" THEN nImrSent + 1
                                                    ELSE nImrSent
            /\ nPccSent' = IF MsgTypeOf(pktId) = "IMR" THEN nPccSent
                           ELSE IF MsgTypeOf(pktId) = "PCC" THEN nPccSent + 1
                           ELSE nPccSent
            /\ nSent' = nSent + 1
            /\ nSentPerHour' = nSentPerHour + 1
            /\ UNCHANGED nRetx
  /\ UNCHANGED <<ackVars, recVars, lqiVars, lossVars, windowVars,
                 now, phase, lastLoss, schedVars, devVars>>

Sent(pktId, edId) ==
  /\ phase = "run"
  /\ IF pktId \in DOMAIN pktInfoMap
       THEN /\ MoreEvents
            /\ nRetx' = nRetx + 1
            /\ UNCHANGED <<pktInfoMap, nSent, nImrSent, nPccSent,
                           nSentPerHour>>
       ELSE /\ MoreEvents
            /\ pktInfoMap' =
                 [x \in DOMAIN pktInfoMap \cup {pktId} |->
                    IF x = pktId THEN PacketInfo(pktId, edId, now)
                                 ELSE pktInfoMap[x]]
            /\ nImrSent' = IF MsgTypeOf(pktId) = "IMR" THEN nImrSent + 1
                                                    ELSE nImrSent
            /\ nPccSent' = IF MsgTypeOf(pktId) = "IMR" THEN nPccSent
                           ELSE IF MsgTypeOf(pktId) = "PCC" THEN nPccSent + 1
                           ELSE nPccSent
            /\ nSent' = nSent + 1
            /\ nSentPerHour' = nSentPerHour + 1
            /\ UNCHANGED nRetx
  /\ UNCHANGED <<ackVars, recVars, lqiVars, lossVars, windowVars,
                 now, phase, lastLoss, schedVars, devVars>>

\* ------------------------------------------------------------- ComputeLqi
\* ComputeLqi(pkt): the all-observed accumulators
ComputeLqi(rxPower) ==
  /\ sumPktsRssi' = sumPktsRssi + rxPower
  /\ sumPktsSnr' = sumPktsSnr + RxPowerToSNR(rxPower)
  /\ nTotalPkts' = nTotalPkts + 1

\* variants of the duplicate test: a zero delay taken for "no delay yet";
\* only an on-time record taken for delivered; no test at all
AlreadyDeliveredPositive(info) == info.m_delay > 0
AlreadyDeliveredOnlyOk(info) == info.m_status = "OK"
AlreadyDeliveredNever(info) == FALSE

\* Ok, line 255: the record already has a delay
AlreadyDelivered(info) == info.m_delay # -1

\* variant of the deadline test with an exclusive boundary
WithinDeadlineStrict(msgType, delay) ==
  \/ msgType = "IMR" /\ delay < imrDelay
  \/ msgType = "PCC" /\ delay < pccDelay

\* variant in which no delivery of an IMR or PCC packet is late
WithinDeadlineAlways(msgType, delay) == msgType \in {"IMR", "PCC"}

\* Ok, lines 276 and 288: the deadline test of each application class
WithinDeadline(msgType, delay) ==
  \/ msgType = "IMR" /\ delay <= imrDelay
  \/ msgType = "PCC" /\ delay <= pccDelay

\* variant that loses the increment of the bucket
IncrAtLost(vec, index) == vec

IncrAt(vec, index) == [vec EXCEPT ![index + 1] = @ + 1]
AddAt(vec, index, d) == [vec EXCEPT ![index + 1] = @ + d]

\* --------------------------------------------------------------------- Ok
Ok(pktId, sf, rxPower) ==
  /\ phase = "run"
  /\ IF pktId \notin DOMAIN pktInfoMap
       THEN UNCHANGED <<pktInfoMap, recVars, lqiVars>>
       ELSE
         /\ MoreEvents
         /\ ComputeLqi(rxPower)
         /\ IF AlreadyDelivered(pktInfoMap[pktId])
              THEN UNCHANGED <<pktInfoMap, recVars>>
              ELSE
                LET delay == now - pktInfoMap[pktId].m_txTime
                    msgType == MsgTypeOf(pktId)
                    onTime == WithinDeadline(msgType, delay)
                IN
                /\ sumRssi' = sumRssi + rxPower
                /\ sumSnr' = sumSnr + RxPowerToSNR(rxPower)
                /\ sumDelay' = sumDelay + delay
                /\ pktInfoMap' =
                     [pktInfoMap EXCEPT
                        ![pktId].m_delay = delay,
                        ![pktId].m_status = IF onTime THEN "OK"
                                                      ELSE "EXPIRED"]
                /\ nRec' = IF onTime THEN nRec + 1 ELSE nRec
                /\ nRecPerHour' = IF onTime THEN nRecPerHour + 1
                                             ELSE nRecPerHour
                /\ nImrRec' = IF onTime /\ msgType = "IMR"
                                THEN nImrRec + 1 ELSE nImrRec
                /\ nPccRec' = IF onTime /\ msgType # "IMR"
                                THEN nPccRec + 1 ELSE nPccRec
                /\ delayPerApp' =
                     IF ~onTime THEN delayPerApp
                     ELSE IF msgType = "IMR" THEN AddAt(delayPerApp, 0, delay)
                     ELSE AddAt(delayPerApp, 1, delay)
                /\ nExpired' = IF onTime THEN nExpired ELSE nExpired + 1
                /\ expPerSf' = IF onTime THEN expPerSf
                               ELSE IncrAt(expPerSf, GetIndexBasedOnSf(sf))
  /\ UNCHANGED <<ackVars, sendVars, lossVars, windowVars, now, phase,
                 schedVars, devVars>>

\* ------------------------------------------------ Interf/Under/NoMore/Busy
\* variant in which a loss for an unknown id opens a record for it
LossLedgerInsert(map, pktId) ==
  IF pktId \in DOMAIN map THEN map
  ELSE [x \in DOMAIN map \cup {pktId} |->
          IF x = pktId THEN PacketInfo(pktId, -1, now) ELSE map[x]]

\* what a loss callback does to the ledger record of its packet
LossLedger(map, pktId) == map

\* GetEdId(pkt): the sender in the ledger record of the packet, or -1
GetEdId(pktId) ==
  IF pktId \in DOMAIN pktInfoMap THEN pktInfoMap[pktId].m_edId ELSE -1

\* the same step down with no floor: dr - 1 stored in 8 bits
AsfaDataRateNoFloor(sf) ==
  LET dr == (12 - sf) % 256 IN (dr - 1) % 256

\* Interf, lines 335-336: uint8_t dr = 12 - sf; dr > 0 ? dr - 1 : 0
AsfaDataRate(sf) ==
  LET dr == (12 - sf) % 256 IN IF dr > 0 THEN dr - 1 ELSE 0

\* what endDevices.Get(edId) with edId outside the container may do: the
\* process is killed, or the write of the data rate lands in one of the
\* devices, or it lands nowhere that the script reads again
OutOfRangeOutcomes == {"killed", "device", "elsewhere"}

\* Interf, lines 327-337: the follow-up on the sender of the lost packet
AsfaFollowUp(pktId, sf) ==
  LET edId == GetEdId(pktId) IN
  IF edId \in EdIds
    THEN /\ dataRate' = [dataRate EXCEPT ![edId] = AsfaDataRate(sf)]
         /\ phase' = phase
    ELSE \E outcome \in OutOfRangeOutcomes :
           /\ phase' = IF outcome = "killed" THEN "killed" ELSE phase
           /\ IF outcome = "device"
                THEN \E d \in EdIds :
                       dataRate' = [dataRate EXCEPT ![d] = AsfaDataRate(sf)]
                ELSE dataRate' = dataRate

Interf(pktId, sf, rxPower) ==
  /\ phase = "run"
  /\ MoreEvents
  /\ nInterf' = nInterf + 1
  /\ nLost' = nLost + 1
  /\ ComputeLqi(rxPower)
  /\ interfPerSf' = IncrAt(interfPerSf, sf - 7)
  /\ pktInfoMap' = LossLedger(pktInfoMap, pktId)
  /\ IF sfa = "asfa" THEN AsfaFollowUp(pktId, sf)
                      ELSE UNCHANGED <<dataRate, phase>>
  /\ UNCHANGED <<nUnder, nBusy, nNoMore, underPerSf, busyPerSf, noMorePerSf>>
  /\ UNCHANGED <<ackVars, sendVars, recVars, windowVars, now,
                 schedVars, sfa, consumption, energy>>

Under(pktId, sf, rxPower) ==
  /\ phase = "run"
  /\ MoreEvents
  /\ nUnder' = nUnder + 1
  /\ nLost' = nLost + 1
  /\ ComputeLqi(rxPower)
  /\ underPerSf' = IncrAt(underPerSf, GetIndexBasedOnSf(sf))
  /\ pktInfoMap' = LossLedger(pktInfoMap, pktId)
  /\ UNCHANGED <<nInterf, nBusy, nNoMore, interfPerSf, busyPerSf,
                 noMorePerSf>>
  /\ UNCHANGED <<ackVars, sendVars, recVars, windowVars, now, phase,
                 schedVars, devVars>>

NoMore(pktId, sf, rxPower) ==
  /\ phase = "run"
  /\ MoreEvents
  /\ nNoMore' = nNoMore + 1
  /\ nLost' = nLost + 1
  /\ ComputeLqi(rxPower)
  /\ noMorePerSf' = IncrAt(noMorePerSf, GetIndexBasedOnSf(sf))
  /\ pktInfoMap' = LossLedger(pktInfoMap, pktId)
  /\ UNCHANGED <<nInterf, nUnder, nBusy, interfPerSf, underPerSf,
                 busyPerSf>>
  /\ UNCHANGED <<ackVars, sendVars, recVars, windowVars, now, phase,
                 schedVars, devVars>>

Busy(pktId, sf, rxPower) ==
  /\ phase = "run"
  /\ MoreEvents
  /\ nBusy' = nBusy + 1
  /\ nLost' = nLost + 1
  /\ ComputeLqi(rxPower)
  /\ busyPerSf' = IncrAt(busyPerSf, GetIndexBasedOnSf(sf))
  /\ pktInfoMap' = LossLedger(pktInfoMap, pktId)
  /\ UNCHANGED <<nInterf, nUnder, nNoMore, interfPerSf, underPerSf,
                 noMorePerSf>>
  /\ UNCHANGED <<ackVars, sendVars, recVars, windowVars, now, phase,
                 schedVars, devVars>>

\* ---------------------------------------------- RequiredTransmissionsCallback
\* variant that counts every successful report, not only the first
RequiredTransmissionsEverySuccess(reqTx, success, firstAttempt, pktId) ==
  /\ phase = "run"
  /\ firstAttempt <= now
  /\ IF pktId = NullPkt \/ pktId \notin DOMAIN pktInfoMap
       THEN UNCHANGED <<pktInfoMap, ackVars>>
       ELSE IF success
         THEN /\ MoreEvents
              /\ pktInfoMap' = [pktInfoMap EXCEPT
                                  ![pktId].m_cpsrDelay = now - firstAttempt]
              /\ nRecAck' = nRecAck + 1
              /\ nReqTx' = nReqTx + reqTx
         ELSE UNCHANGED <<pktInfoMap, ackVars>>
  /\ UNCHANGED <<sendVars, recVars, lqiVars, lossVars, windowVars,
                 now, phase, lastLoss, schedVars, devVars>>

\* pktId = NullPkt stands for a null packet pointer
RequiredTransmissionsCallback(reqTx, success, firstAttempt, pktId) ==
  /\ phase = "run"
  /\ firstAttempt <= now
  /\ IF pktId = NullPkt \/ pktId \notin DOMAIN pktInfoMap
       THEN UNCHANGED <<pktInfoMap, ackVars>>
       ELSE IF success /\ pktInfoMap[pktId].m_cpsrDelay = -1
         THEN /\ MoreEvents
              /\ pktInfoMap' = [pktInfoMap EXCEPT
                                  ![pktId].m_cpsrDelay = now - firstAttempt]
              /\ nRecAck' = nRecAck + 1
              /\ nReqTx' = nReqTx + reqTx
         ELSE UNCHANGED <<pktInfoMap, ackVars>>
  /\ UNCHANGED <<sendVars, recVars, lqiVars, lossVars, windowVars,
                 now, phase, lastLoss, schedVars, devVars>>

\* --------------------------------------------------------- CalcPdrsPerHour
\* variant of the window sample without the cap
WindowPdrUnclamped(rec, sent) ==
  IF sent > 0 THEN Ratio(rec * 100, sent) ELSE <<0, 1>>

\* lines 723-724: the sample of one window, rec / sent * 100 capped at 100
WindowPdr(rec, sent) ==
  LET pdr == IF sent > 0 THEN Ratio(rec * 100, sent) ELSE <<0, 1>>
  IN IF RatioLeq(pdr, 100) THEN pdr ELSE <<100, 1>>

\* variant of the tick that resets the cumulative counters with the window's
CalcPdrsPerHourResetAll ==
  /\ phase = "run"
  /\ MoreEvents
  /\ pdrsPerHourVec' = Append(pdrsPerHourVec,
                               WindowPdr(nRecPerHour, nSentPerHour))
  /\ nSentPerHour' = 0
  /\ nRecPerHour' = 0
  /\ nSent' = 0
  /\ nRec' = 0
  /\ events' = Schedule(events, Hour, "CalcPdrsPerHour")
  /\ UNCHANGED <<pktInfoMap, ackVars, nRetx, nImrSent, nPccSent,
                 nImrRec, nPccRec, nExpired, expPerSf, sumDelay,
                 delayPerApp, sumRssi, sumSnr, lqiVars, lossVars,
                 now, phase, lastLoss, devVars>>

\* the handler, run with the events in queue left to run after it
CalcPdrsPerHourFrom(queue) ==
  /\ phase = "run"
  /\ MoreEvents
  /\ pdrsPerHourVec' = Append(pdrsPerHourVec,
                               WindowPdr(nRecPerHour, nSentPerHour))
  /\ nSentPerHour' = 0
  /\ nRecPerHour' = 0
  /\ events' = Schedule(queue, Hour, "CalcPdrsPerHour")
  /\ UNCHANGED <<pktInfoMap, ackVars, nSent, nRetx, nImrSent, nPccSent,
                 nRec, nImrRec, nPccRec, nExpired, expPerSf, sumDelay,
                 delayPerApp, sumRssi, sumSnr, lqiVars, lossVars,
                 now, phase, lastLoss, devVars>>

CalcPdrsPerHour == CalcPdrsPerHourFrom(events)

\* -------------------------------------------------------------- ClearData
ClearData ==
  /\ phase = "run"
  /\ phase' = "cleared"
  /\ pktInfoMap' = <<>>
  /\ pdrsPerHourVec' = <<>>
  /\ interfPerSf' = <<>>
  /\ underPerSf' = <<>>
  /\ expPerSf' = <<>>
  /\ noMorePerSf' = <<>>
  /\ busyPerSf' = <<>>
  /\ delayPerApp' = <<>>
  /\ UNCHANGED <<ackVars, sendVars, nRec, nImrRec, nPccRec, nRecPerHour,
                 nExpired, sumDelay, sumRssi, sumSnr, lqiVars,
                 nLost, nInterf, nUnder, nBusy, nNoMore, now,
                 lastLoss, schedVars, devVars>>

\* ---------------------------------------------------------- Simulator::Run
\* the scheduler moves the simulated clock on to the time of the next event
Advance(t) ==
  /\ phase = "run"
  /\ t > now
  /\ now' = t
  /\ UNCHANGED <<ledgerVars, ackVars, sendVars, recVars, lqiVars, lossVars,
                 windowVars, phase, lastLoss, schedVars, devVars>>

\* ------------------------------------------------------------------- Next
AdvanceStep == \E t \in TimePoints : Advance(t)
SentStep ==
  \E pktId \in PktIds : Sent(pktId, EdIdOf(pktId))
OkStep ==
  \E pktId \in PktIds, sf \in SFs, p \in RxPowers :
     Ok(pktId, sf, p) /\ UNCHANGED lastLoss
InterfStep ==
  \E pktId \in PktIds, sf \in SFs, p \in RxPowers :
     Interf(pktId, sf, p) /\ UNCHANGED lastLoss
UnderStep ==
  \E pktId \in PktIds, sf \in SFs, p \in RxPowers :
     Under(pktId, sf, p) /\ UNCHANGED lastLoss
NoMoreStep ==
  \E pktId \in PktIds, sf \in SFs, p \in RxPowers :
     NoMore(pktId, sf, p) /\ UNCHANGED lastLoss
BusyStep ==
  \E pktId \in PktIds, sf \in SFs, p \in RxPowers :
     Busy(pktId, sf, p) /\ UNCHANGED lastLoss
AckStep ==
  \E reqTx \in ReqTxs, success \in BOOLEAN, fa \in FirstAttempts,
     pktId \in PktIds \cup {NullPkt} :
     RequiredTransmissionsCallback(reqTx, success, fa, pktId)

Next ==
  \/ AdvanceStep
  \/ SentStep
  \/ OkStep
  \/ InterfStep
  \/ UnderStep
  \/ NoMoreStep
  \/ BusyStep
  \/ AckStep
  \/ CalcPdrsPerHour
  \/ ClearData

Spec == Init /\ [][Next]_vars

\* ------------------------------------------ the run with its loss events
\* The same run, with the loss event handled last kept in lastLoss, so that
\* a repeated report of one loss (another gateway, a replay) can be told.
InterfLogged ==
  \E pktId \in PktIds, sf \in SFs, p \in RxPowers :
     Interf(pktId, sf, p) /\ lastLoss' = LossEvent("Interf", pktId, sf)
UnderLogged ==
  \E pktId \in PktIds, sf \in SFs, p \in RxPowers :
     Under(pktId, sf, p) /\ lastLoss' = LossEvent("Under", pktId, sf)
NoMoreLogged ==
  \E pktId \in PktIds, sf \in SFs, p \in RxPowers :
     NoMore(pktId, sf, p) /\ lastLoss' = LossEvent("NoMore", pktId, sf)
BusyLogged ==
  \E pktId \in PktIds, sf \in SFs, p \in RxPowers :
     Busy(pktId, sf, p) /\ lastLoss' = LossEvent("Busy", pktId, sf)

NextLossLog ==
  \/ AdvanceStep
  \/ SentStep
  \/ OkStep
  \/ InterfLogged
  \/ UnderLogged
  \/ NoMoreLogged
  \/ BusyLogged
  \/ AckStep
  \/ CalcPdrsPerHour
  \/ ClearData

SpecLossLog == Init /\ [][NextLossLog]_vars

\* --------------------------------------- the run with its delivery events
\* The sends and deliveries of a run, with the delivery event handled last
\* kept in lastLoss, so that a delivery report the handler drops is still
\* an event of the run.
OkLogged ==
  \E pktId \in PktIds, sf \in SFs, p \in RxPowers :
     Ok(pktId, sf, p) /\ lastLoss' = LossEvent("Ok", pktId, sf)

NextOkLog ==
  \/ AdvanceStep
  \/ SentStep
  \/ OkLogged
  \/ ClearData

SpecOkLog == Init /\ [][NextOkLog]_vars

\* ---------------------------------------------- the run with sfa = "asfa"
\* The sends and interference losses of a run started with --sfa=asfa, in
\* which Interf lowers the data rate of the sender of the lost packet.
InitAsfa == InitScheme("asfa")

NextAsfa ==
  \/ AdvanceStep
  \/ SentStep
  \/ InterfStep

SpecAsfa == InitAsfa /\ [][NextAsfa]_vars

\* ------------------------------------- the run with packets of any class
\* The sends and deliveries of a run in which a packet of each AppTag value
\* is sent: uid 1 (IMR), uid 2 (PCC) and uid 3, which is of neither class.
ClassPktIds == 1..Len(MsgTypes)

SentClassStep ==
  \E pktId \in ClassPktIds : Sent(pktId, EdIdOf(pktId))
OkClassStep ==
  \E pktId \in ClassPktIds, sf \in SFs, p \in RxPowers :
     Ok(pktId, sf, p) /\ UNCHANGED lastLoss

NextClasses ==
  \/ AdvanceStep
  \/ SentClassStep
  \/ OkClassStep

SpecClasses == Init /\ [][NextClasses]_vars

\* ------------------------------------------------ CalcEnergyConsumption
\* lines 405-413: what one device adds to the total
EnergyOf(models, d) == IF models[d] = NoModel THEN 0 ELSE models[d]

\* lines 402-415: the loop over the container, in the order of its indices
RECURSIVE Accumulate(_, _, _)
Accumulate(total, devices, models) ==
  IF devices = <<>> THEN total
  ELSE Accumulate(total + EnergyOf(models, Head(devices)),
                  Tail(devices), models)

\* variant without the reset of the total at line 401
CalcEnergyConsumptionKeepTotal(endDevices) ==
  /\ consumption' = Accumulate(consumption, endDevices, energy)
  /\ UNCHANGED <<ledgerVars, ackVars, sendVars, recVars, lqiVars, lossVars,
                 windowVars, envVars, schedVars, sfa, dataRate, energy>>

CalcEnergyConsumption(endDevices) ==
  /\ consumption' = Accumulate(0, endDevices, energy)
  /\ UNCHANGED <<ledgerVars, ackVars, sendVars, recVars, lqiVars, lossVars,
                 windowVars, envVars, schedVars, sfa, dataRate, energy>>

\* ------------------------------------------ the energy collector on its own
\* The collector applied to containers that hold the end devices in any
\* order, some of them without an energy model, while the radios go on
\* consuming between two collections.
DeviceOrders ==
  {order \in [1..Cardinality(EdIds) -> EdIds] :
     \A i, j \in 1..Cardinality(EdIds) : order[i] = order[j] => i = j}

InitEnergy ==
  \E models \in [EdIds -> Energies \cup {NoModel}] : InitState("", models)

\* the radio of device d has consumed more: its model now reports e
Consume(d, e) ==
  /\ energy[d] # NoModel
  /\ e > energy[d]
  /\ energy' = [energy EXCEPT ![d] = e]
  /\ UNCHANGED <<ledgerVars, ackVars, sendVars, recVars, lqiVars, lossVars,
                 windowVars, envVars, schedVars, sfa, dataRate, consumption>>

ConsumeStep == \E d \in EdIds, e \in Energies : Consume(d, e)
CalcEnergyStep == \E order \in DeviceOrders : CalcEnergyConsumption(order)

NextEnergy ==
  \/ ConsumeStep
  \/ CalcEnergyStep

SpecEnergy == InitEnergy /\ [][NextEnergy]_vars

\* ------------------------------------------------- the sampler on its own
\* The traffic of one window as the sampler sees it: sent new transmissions
\* (Sent, line 210) and rec on-time deliveries (Ok, lines 282 and 294)
\* counted since the last tick.
WindowTraffic(sent, rec) ==
  /\ phase = "run"
  /\ nSentPerHour = 0 /\ nRecPerHour = 0
  /\ sent + rec > 0
  /\ nSentPerHour' = sent
  /\ nRecPerHour' = rec
  /\ UNCHANGED <<pktInfoMap, ackVars, nSent, nRetx, nImrSent, nPccSent,
                 nRec, nImrRec, nPccRec, nExpired, expPerSf, sumDelay,
                 delayPerApp, sumRssi, sumSnr, lqiVars, lossVars,
                 windowVars, envVars, schedVars, devVars>>

WindowTrafficStep ==
  \E sent \in WindowCounts, rec \in WindowCounts : WindowTraffic(sent, rec)

NextTick ==
  \/ WindowTrafficStep
  \/ CalcPdrsPerHour

SpecTick == Init /\ [][NextTick]_vars

\* ------------------------------------------- the run as main schedules it
\* Simulator::Run takes the events of the queue in the order of their
\* times: the clock never passes an event that is still in the queue, and
\* an event runs when the clock stands at its time.  The Stop event ends
\* the run: Simulator::Run returns and main goes on to print the results.
RunTimePoints == {1, 1001, Hour, Hour + 1001, 2 * Hour, StopTime}

RunAdvance(t) ==
  /\ Advance(t)
  /\ \A e \in events : t <= e.at

Dispatch(e) ==
  /\ phase = "run"
  /\ e \in events
  /\ e.at = now
  /\ \A o \in events : e.at <= o.at
  /\ IF e.fn = "Stop"
       THEN /\ phase' = "done"
            /\ events' = events \ {e}
            /\ UNCHANGED <<ledgerVars, ackVars, sendVars, recVars, lqiVars,
                           lossVars, windowVars, now, lastLoss, devVars>>
       ELSE CalcPdrsPerHourFrom(events \ {e})

RunAdvanceStep == \E t \in RunTimePoints : RunAdvance(t)
DispatchStep == \E e \in events : Dispatch(e)

NextRun ==
  \/ RunAdvanceStep
  \/ SentStep
  \/ OkStep
  \/ DispatchStep

SpecRun == Init /\ [][NextRun]_vars

\* ========================================================== the properties
Tracked(pktId) == pktId \in DOMAIN pktInfoMap
StatusOf(pktId) == pktInfoMap[pktId].m_status

\* some loss callback handles the event (pktId, sf, rxPower)
LossCallback(pktId, sf, rxPower) ==
  \/ Interf(pktId, sf, rxPower)
  \/ Under(pktId, sf, rxPower)
  \/ NoMore(pktId, sf, rxPower)
  \/ Busy(pktId, sf, rxPower)

\* Ok events that went through ComputeLqi
OkObserved == nTotalPkts - nLost

\* C1: once the status of a ledger record is no longer SENT, no event of
\* the run changes it again: the record leaves SENT at most once.
C1_StatusLeavesSentOnce ==
  [][\A pktId \in PktIds :
       (Tracked(pktId) /\ StatusOf(pktId) # "SENT"
          /\ pktId \in DOMAIN pktInfoMap')
       => pktInfoMap'[pktId].m_status = StatusOf(pktId)]_vars

\* a PCC packet delivered after 1001 ms, hence EXPIRED, and a further
\* delivery of it handled since
C1_Witness ==
  /\ DOMAIN pktInfoMap = {2}
  /\ StatusOf(2) = "EXPIRED"
  /\ pktInfoMap[2].m_delay = 1001
  /\ OkObserved = 2

\* C2: an Ok event for a record that is already classified adds to
\* nTotalPkts, sumPktsRssi and sumPktsSnr and changes nothing else: not the
\* record, nor any delivery, expiry, delay or delivered-only signal total.
C2_DuplicateOkOnlyObserved ==
  [][\A pktId \in PktIds, sf \in SFs, p \in RxPowers :
       (Ok(pktId, sf, p) /\ Tracked(pktId) /\ StatusOf(pktId) # "SENT")
       => /\ nTotalPkts' = nTotalPkts + 1
          /\ sumPktsRssi' = sumPktsRssi + p
          /\ sumPktsSnr' = sumPktsSnr + RxPowerToSNR(p)
          /\ pktInfoMap' = pktInfoMap
          /\ UNCHANGED <<nRec, nExpired, nImrRec, nPccRec, nRecPerHour,
                         sumDelay, delayPerApp, sumRssi, sumSnr, expPerSf>>
          /\ UNCHANGED <<ackVars, sendVars, lossVars, windowVars>>]_vars

\* an on-time packet seen by a second gateway: counted once as received,
\* twice as observed
C2_Witness ==
  /\ DOMAIN pktInfoMap = {1}
  /\ StatusOf(1) = "OK"
  /\ nRec = 1 /\ nExpired = 0
  /\ OkObserved = 2
  /\ sumPktsRssi = 2 * sumRssi

\* C3: a loss event for a record that is still SENT marks the record
\* terminal (LOST), so that a later Ok for the same id is a duplicate.
C3_LossMarksRecordTerminal ==
  [][\A pktId \in PktIds, sf \in SFs, p \in RxPowers :
       (LossCallback(pktId, sf, p) /\ Tracked(pktId)
          /\ StatusOf(pktId) = "SENT")
       => pktInfoMap'[pktId].m_status = "LOST"]_vars

\* C4: a loss event that repeats the loss event reported last (same packet
\* id, same cause, same spreading factor) changes neither nLost nor any
\* cause counter nor any per-spreading-factor bucket.
C4_ReplayedLossNotCounted ==
  [][\A pktId \in PktIds, sf \in SFs, p \in RxPowers :
       (LossCallback(pktId, sf, p) /\ lastLoss # NoLoss
          /\ lastLoss' = lastLoss /\ lastLoss.id = pktId /\ lastLoss.sf = sf)
       => UNCHANGED lossVars]_vars

\* C5: while the run lasts, whenever packets were sent and no record is
\* left in SENT, nSent = nRec + nExpired + nInterf + nUnder + nNoMore + nBusy.
C5_Conservation ==
  (/\ phase = "run"
   /\ nSent > 0
   /\ \A pktId \in DOMAIN pktInfoMap : StatusOf(pktId) # "SENT")
  => nSent = nRec + nExpired + (nInterf + nUnder + nNoMore + nBusy)

\* C6: the first Ok event for a tracked IMR or PCC packet records the delay
\* now - m_txTime and classifies the record OK iff that delay is at most the
\* class maximum (IMR 60000 ms, PCC 1000 ms) and EXPIRED iff it is larger.
C6_DeadlineClassification ==
  [][\A pktId \in PktIds, sf \in SFs, p \in RxPowers :
       (Ok(pktId, sf, p) /\ Tracked(pktId) /\ StatusOf(pktId) = "SENT"
          /\ MsgTypeOf(pktId) \in {"IMR", "PCC"})
       => LET delay == now - pktInfoMap[pktId].m_txTime
              max == IF MsgTypeOf(pktId) = "IMR" THEN 60000 ELSE 1000
          IN /\ pktInfoMap'[pktId].m_delay = delay
             /\ pktInfoMap'[pktId].m_status = "OK" <=> delay <= max
             /\ pktInfoMap'[pktId].m_status = "EXPIRED" <=> delay > max]_vars

\* an IMR packet delivered after exactly 60000 ms and classified on time
C6_Witness ==
  /\ Tracked(1)
  /\ MsgTypeOf(1) = "IMR"
  /\ pktInfoMap[1].m_delay = 60000
  /\ StatusOf(1) = "OK"
  /\ nImrRec = 1 /\ nExpired = 0

\* C7: after ClearData every counter and every cumulative sum is zero, the
\* ledger is empty and pdrsPerHourVec is empty.
C7_ResetZeroesEverything ==
  phase = "cleared" =>
    /\ pktInfoMap = <<>>
    /\ pdrsPerHourVec = <<>>
    /\ nSent = 0 /\ nRec = 0 /\ nRetx = 0 /\ nReqTx = 0 /\ nRecAck = 0
    /\ nLost = 0 /\ nInterf = 0 /\ nUnder = 0 /\ nNoMore = 0 /\ nBusy = 0
    /\ nExpired = 0
    /\ nImrSent = 0 /\ nPccSent = 0 /\ nImrRec = 0 /\ nPccRec = 0
    /\ nSentPerHour = 0 /\ nRecPerHour = 0
    /\ nTotalPkts = 0
    /\ sumDelay = 0 /\ sumRssi = 0 /\ sumSnr = 0
    /\ sumPktsRssi = 0 /\ sumPktsSnr = 0

\* PrintMainData, lines 473-475: a delivery ratio in percent
Pdr(rec, sent) == IF sent > 0 THEN Ratio(rec * 100, sent) ELSE <<0, 1>>

InPercentRange(r) == r[1] >= 0 /\ r[2] > 0 /\ RatioLeq(r, 100)

\* C8: in every reachable state nRec <= nSent, nImrRec <= nImrSent and
\* nPccRec <= nPccSent, and the overall and per-class delivery ratios of
\* PrintMainData are between 0 and 100.
C8_DeliveryRatiosInRange ==
  /\ nRec <= nSent /\ nImrRec <= nImrSent /\ nPccRec <= nPccSent
  /\ InPercentRange(Pdr(nRec, nSent))
  /\ InPercentRange(Pdr(nImrRec, nImrSent))
  /\ InPercentRange(Pdr(nPccRec, nPccSent))

\* the only packet sent was delivered on time and then seen once more:
\* the ratios stay at 100
C8_Witness ==
  /\ nSent = 1 /\ nImrSent = 1 /\ nImrRec = 1
  /\ OkObserved = 2
  /\ Pdr(nRec, nSent) = <<100, 1>>
  /\ Pdr(nImrRec, nImrSent) = <<100, 1>>

\* min(100, 100 * rec / sent), and 0 for an empty window
ExpectedSample(rec, sent) ==
  IF sent = 0 THEN <<0, 1>>
  ELSE IF 100 * rec >= 100 * sent THEN <<100, 1>>
  ELSE Ratio(100 * rec, sent)

\* C9: every sampler tick appends min(100, 100 * nRecPerHour / nSentPerHour)
\* (0 when nSentPerHour is 0) computed from the window counters at the tick,
\* and every entry of pdrsPerHourVec is between 0 and 100.
C9_TickAppendsClampedRatio ==
  /\ [][CalcPdrsPerHour =>
          pdrsPerHourVec' =
            Append(pdrsPerHourVec,
                   ExpectedSample(nRecPerHour, nSentPerHour))]_vars
  /\ [](\A i \in 1..Len(pdrsPerHourVec) : InPercentRange(pdrsPerHourVec[i]))

\* windows with counts (100, 99) and then (50, 50) were sampled
C9_Witness ==
  /\ pdrsPerHourVec = << <<99, 1>>, <<100, 1>> >>
  /\ nSentPerHour = 0 /\ nRecPerHour = 0

\* C10: a step that appends a sample leaves both window counters at 0,
\* keeps every earlier sample and changes nothing else; and while the run
\* lasts no step removes or rewrites a sample.
C10_TickFrame ==
  [][/\ Len(pdrsPerHourVec') = Len(pdrsPerHourVec) + 1
        => /\ nSentPerHour' = 0 /\ nRecPerHour' = 0
           /\ SubSeq(pdrsPerHourVec', 1, Len(pdrsPerHourVec))
                = pdrsPerHourVec
           /\ UNCHANGED <<pktInfoMap, ackVars, nSent, nRetx, nImrSent,
                          nPccSent, nRec, nImrRec, nPccRec, nExpired,
                          expPerSf, sumDelay, delayPerApp, sumRssi, sumSnr,
                          lqiVars, lossVars>>
     /\ phase' = "run"
        => /\ Len(pdrsPerHourVec') >= Len(pdrsPerHourVec)
           /\ SubSeq(pdrsPerHourVec', 1, Len(pdrsPerHourVec))
                = pdrsPerHourVec]_vars

\* a tick taken after a packet was sent and delivered: the window counters
\* are back at 0 while the cumulative ones still count the packet
C10_Witness ==
  /\ phase = "run"
  /\ pdrsPerHourVec = << <<100, 1>> >>
  /\ nSentPerHour = 0 /\ nRecPerHour = 0
  /\ nSent = 1 /\ nRec = 1

\* the whole windows of one hour that have elapsed
ElapsedWindows == now \div Hour

\* C11: when the run has ended (Simulator::Run has returned), pdrsPerHourVec
\* holds exactly one sample for every whole one-hour window that elapsed.
C11_OneSamplePerElapsedWindow ==
  phase = "done" => Len(pdrsPerHourVec) = ElapsedWindows
\* C12: an Ok event for an id with no ledger record creates no record and
\* changes no delivery counter, but is counted as observed: nTotalPkts
\* increases by 1 and sumPktsRssi and sumPktsSnr by the event's receive
\* power and SNR.
C12_UntrackedOkObserved ==
  [][\A pktId \in PktIds, sf \in SFs, p \in RxPowers :
       (/\ Ok(pktId, sf, p)
        /\ lastLoss' = LossEvent("Ok", pktId, sf)
        /\ ~Tracked(pktId))
       => /\ pktInfoMap' = pktInfoMap
          /\ UNCHANGED <<nRec, nExpired, nImrRec, nPccRec, nRecPerHour,
                         sumDelay, sumRssi, sumSnr>>
          /\ nTotalPkts' = nTotalPkts + 1
          /\ sumPktsRssi' = sumPktsRssi + p
          /\ sumPktsSnr' = sumPktsSnr + RxPowerToSNR(p)]_vars
\* the all-observed accumulators take one more packet of receive power p
Observed(p) ==
  /\ nTotalPkts' = nTotalPkts + 1
  /\ sumPktsRssi' = sumPktsRssi + p
  /\ sumPktsSnr' = sumPktsSnr + RxPowerToSNR(p)

\* what every loss callback does for an id that has no record
UntrackedLossEffect(pktId, p) ==
  /\ nLost' = nLost + 1
  /\ Observed(p)
  /\ pktInfoMap' = pktInfoMap
  /\ pktId \notin DOMAIN pktInfoMap'

\* C13: a loss event (Interf, Under, NoMore, Busy) for an id with no ledger
\* record increments nLost, the counter of its cause and the bucket of its
\* spreading factor in the vector of its cause, adds the packet to the
\* all-observed accumulators, and leaves the ledger without a record for it.
\* (Only a step that changes nLost can be a loss callback.)
C13_UntrackedLossCounted ==
  [][nLost' # nLost =>
       \A pktId \in PktIds, sf \in SFs, p \in RxPowers :
         ~Tracked(pktId) =>
           /\ Interf(pktId, sf, p)
                => /\ nInterf' = nInterf + 1
                   /\ interfPerSf'[sf - 6] = interfPerSf[sf - 6] + 1
                   /\ UntrackedLossEffect(pktId, p)
           /\ Under(pktId, sf, p)
                => /\ nUnder' = nUnder + 1
                   /\ underPerSf'[sf - 6] = underPerSf[sf - 6] + 1
                   /\ UntrackedLossEffect(pktId, p)
           /\ NoMore(pktId, sf, p)
                => /\ nNoMore' = nNoMore + 1
                   /\ noMorePerSf'[sf - 6] = noMorePerSf[sf - 6] + 1
                   /\ UntrackedLossEffect(pktId, p)
           /\ Busy(pktId, sf, p)
                => /\ nBusy' = nBusy + 1
                   /\ busyPerSf'[sf - 6] = busyPerSf[sf - 6] + 1
                   /\ UntrackedLossEffect(pktId, p)]_vars

\* a loss under sensitivity at SF12 was reported for a packet that was
\* never sent
C13_Witness ==
  /\ pktInfoMap = <<>>
  /\ nSent = 0
  /\ nLost = 1 /\ nUnder = 1
  /\ underPerSf = <<0, 0, 0, 0, 0, 1>>
  /\ nTotalPkts = 1 /\ sumPktsRssi = -120000
\* C14: with sfa = "asfa", an interference loss for an id with no ledger
\* record finds no sender (GetEdId gives -1), touches no device (no data
\* rate changes) and the handler returns with its counters updated, the run
\* going on.
C14_UntrackedInterfTouchesNoDevice ==
  [][\A pktId \in PktIds, sf \in SFs, p \in RxPowers :
       (Interf(pktId, sf, p) /\ sfa = "asfa" /\ ~Tracked(pktId))
       => /\ GetEdId(pktId) = -1
          /\ dataRate' = dataRate
          /\ phase' = "run"
          /\ nInterf' = nInterf + 1
          /\ nLost' = nLost + 1]_vars
\* C15: a Sent event for an id that has a ledger record increments nRetx by
\* 1 and changes nothing else: not the record, whatever its status, nor
\* the ledger, nor nSent, nImrSent, nPccSent, nSentPerHour or any other
\* counter.
C15_RetransmissionFrame ==
  [][\A pktId \in PktIds, edId \in EdIds :
       (Sent(pktId, edId) /\ Tracked(pktId))
       => /\ nRetx' = nRetx + 1
          /\ pktInfoMap' = pktInfoMap
          /\ UNCHANGED <<nSent, nImrSent, nPccSent, nSentPerHour>>
          /\ UNCHANGED <<ackVars, recVars, lqiVars, lossVars, windowVars,
                         schedVars, devVars>>]_vars

\* a packet that was delivered on time and sent again: one send, one
\* retransmission, the record as the delivery left it
C15_Witness ==
  /\ Tracked(1)
  /\ StatusOf(1) = "OK"
  /\ pktInfoMap[1].m_delay = 1001
  /\ nRetx = 1
  /\ nSent = 1 /\ nSentPerHour = 1 /\ nImrSent = 1
\* C16: while the run lasts nSent = nImrSent + nPccSent and nSent is the
\* number of ledger records; and a first Sent event for a packet whose
\* class is neither IMR nor PCC is rejected: it adds no record and counts
\* nowhere.
C16_SentCountersAgree ==
  /\ [](phase = "run" =>
          /\ nSent = nImrSent + nPccSent
          /\ nSent = Cardinality(DOMAIN pktInfoMap))
  /\ [][\A pktId \in ClassPktIds :
          (/\ Sent(pktId, EdIdOf(pktId))
           /\ ~Tracked(pktId)
           /\ MsgTypeOf(pktId) \notin {"IMR", "PCC"})
          => /\ pktInfoMap' = pktInfoMap
             /\ UNCHANGED <<nSent, nSentPerHour, nImrSent, nPccSent>>]_vars
\* the ledger records that have an ack round-trip delay
Acked == {pktId \in DOMAIN pktInfoMap : pktInfoMap[pktId].m_cpsrDelay # -1}

\* what every step of RequiredTransmissionsCallback leaves alone: the clock,
\* the position of main and the counters of sends, receptions and samples
AckFrame ==
  /\ now' = now /\ phase' = phase
  /\ nSent' = nSent /\ nRetx' = nRetx /\ nTotalPkts' = nTotalPkts
  /\ Len(pdrsPerHourVec') = Len(pdrsPerHourVec)

\* C17: the first RequiredTransmissionsCallback with success for a tracked
\* id increments nRecAck by 1, adds reqTx to nReqTx and sets m_cpsrDelay of
\* the record to now - firstAttempt; any other callback (the id acked
\* before, no success, a null packet, an untracked id) leaves nRecAck,
\* nReqTx and the ledger as they are.  So while the run lasts nRecAck is
\* the number of acked records: no packet is counted twice.
C17_AckCountedOnce ==
  /\ [][AckFrame =>
          \A reqTx \in ReqTxs, success \in BOOLEAN, fa \in FirstAttempts,
             pktId \in PktIds \cup {NullPkt} :
            IF pktId # NullPkt /\ Tracked(pktId) /\ success
               /\ pktId \notin Acked
              THEN RequiredTransmissionsCallback(reqTx, success, fa, pktId)
                   => /\ nRecAck' = nRecAck + 1
                      /\ nReqTx' = nReqTx + reqTx
                      /\ pktInfoMap' =
                           [pktInfoMap EXCEPT
                              ![pktId].m_cpsrDelay = now - fa]
                      /\ pktId \in Acked'
              ELSE \/ UNCHANGED <<nRecAck, nReqTx, pktInfoMap>>
                   \/ ~RequiredTransmissionsCallback(reqTx, success, fa,
                                                     pktId)]_vars
  /\ [](phase = "run" => nRecAck = Cardinality(Acked))

\* the ack of packet 1 came 1 ms after its first attempt, and the clock has
\* moved on since: the record and the totals are those of that one ack
C17_Witness ==
  /\ Tracked(1)
  /\ pktInfoMap[1].m_cpsrDelay = 1
  /\ now = 60001
  /\ nRecAck = 1 /\ nReqTx = 2
\* the handler run for one event of the log leaves no choice of the state
\* it ends in: no run of the same handler on the same event from the same
\* state ends in a state other than next
SentDetermined(next) ==
  \A pktId \in PktIds :
     Sent(pktId, EdIdOf(pktId))
     => ~ ENABLED (Sent(pktId, EdIdOf(pktId)) /\ vars' # next)
ReceptionDetermined(next) ==
  \A pktId \in PktIds, sf \in SFs, p \in RxPowers :
     /\ (Ok(pktId, sf, p) /\ UNCHANGED lastLoss)
        => ~ ENABLED (Ok(pktId, sf, p) /\ UNCHANGED lastLoss
                        /\ vars' # next)
     /\ (Interf(pktId, sf, p) /\ UNCHANGED lastLoss)
        => ~ ENABLED (Interf(pktId, sf, p) /\ UNCHANGED lastLoss
                        /\ vars' # next)
     /\ (Under(pktId, sf, p) /\ UNCHANGED lastLoss)
        => ~ ENABLED (Under(pktId, sf, p) /\ UNCHANGED lastLoss
                        /\ vars' # next)
     /\ (NoMore(pktId, sf, p) /\ UNCHANGED lastLoss)
        => ~ ENABLED (NoMore(pktId, sf, p) /\ UNCHANGED lastLoss
                        /\ vars' # next)
     /\ (Busy(pktId, sf, p) /\ UNCHANGED lastLoss)
        => ~ ENABLED (Busy(pktId, sf, p) /\ UNCHANGED lastLoss
                        /\ vars' # next)
AckDetermined(next) ==
  \A reqTx \in ReqTxs, success \in BOOLEAN, fa \in FirstAttempts,
     pktId \in PktIds \cup {NullPkt} :
     RequiredTransmissionsCallback(reqTx, success, fa, pktId)
     => ~ ENABLED (RequiredTransmissionsCallback(reqTx, success, fa, pktId)
                     /\ vars' # next)
TickDetermined(next) ==
  CalcPdrsPerHour => ~ ENABLED (CalcPdrsPerHour /\ vars' # next)

FloatDiv(n, d) == <<n, d>>
IsFinite(q) == q[2] # 0
IsZero(q) == IsFinite(q) /\ q[1] = 0
Zero == <<0, 1>>
\* d > 0 ? n / d : 0.0
Guarded(n, d) == IF d > 0 THEN FloatDiv(n, d) ELSE Zero

AvgDelay == Guarded(sumDelay, nRec)
AvgRssi == Guarded(sumRssi, nRec)
AvgSnr == Guarded(sumSnr, nRec)
AvgPktsRssi == Guarded(sumPktsRssi, nTotalPkts)
AvgPktsSnr == Guarded(sumPktsSnr, nTotalPkts)
Cpsr == Guarded(nRecAck * 100, nRec)
\* line 504, the columns written with txMode = "nack"
ImrAvgDelay == FloatDiv(delayPerApp[1], nImrRec)
PccAvgDelay == FloatDiv(delayPerApp[2], nPccRec)
\* PrintLoss, lines 558-562
LossShare(n) == Guarded(n * 100, nLost)

\* C19: at the end of a run every ratio of the report whose denominator is
\* 0 is 0: the delivery ratios, the mean delay overall and per class, the
\* mean receive power and SNR of the delivered and of all observed
\* packets, the confirmed-delivery ratio and the shares of the loss causes.
C19_ZeroDenominatorGivesZero ==
  phase = "run" =>
    /\ nSent = 0 => IsZero(Pdr(nRec, nSent))
    /\ nImrSent = 0 => IsZero(Pdr(nImrRec, nImrSent))
    /\ nPccSent = 0 => IsZero(Pdr(nPccRec, nPccSent))
    /\ nRec = 0 => IsZero(AvgDelay) /\ IsZero(AvgRssi) /\ IsZero(AvgSnr)
                     /\ IsZero(Cpsr)
    /\ nTotalPkts = 0 => IsZero(AvgPktsRssi) /\ IsZero(AvgPktsSnr)
    /\ nImrRec = 0 => IsZero(ImrAvgDelay)
    /\ nPccRec = 0 => IsZero(PccAvgDelay)
    /\ nLost = 0 => \A n \in {nInterf, nUnder, nNoMore, nBusy, nExpired} :
                       IsZero(LossShare(n))
\* vec' is vec with the bucket of spreading factor sf one higher
OnlyBucketIncremented(vec, vecNext, sf) ==
  /\ Len(vecNext) = NumSf
  /\ \A i \in 1..NumSf :
        vecNext[i] = vec[i] + (IF i = sf - 6 THEN 1 ELSE 0)

\* the expiry bucket vector and the send, delivery and ack counters stay
LossFrame ==
  UNCHANGED <<expPerSf, nExpired, sendVars, nRec, nImrRec, nPccRec,
              nRecPerHour, ackVars>>

\* C20: a loss event of one cause with spreading factor sf increments the
\* counter of that cause and bucket sf - 7 of the vector of that cause by 1,
\* and leaves the counters of the other three causes, every other bucket
\* of every per-spreading-factor vector (expPerSf too) and all send and
\* delivery counters as they are.  (Only a step that changes nLost can be
\* a loss callback.)
C20_LossAttribution ==
  [][nLost' # nLost =>
       \A pktId \in PktIds, sf \in SFs, p \in RxPowers :
         /\ Interf(pktId, sf, p)
              => /\ nInterf' = nInterf + 1
                 /\ OnlyBucketIncremented(interfPerSf, interfPerSf', sf)
                 /\ UNCHANGED <<nUnder, nNoMore, nBusy,
                                underPerSf, noMorePerSf, busyPerSf>>
                 /\ LossFrame
         /\ Under(pktId, sf, p)
              => /\ nUnder' = nUnder + 1
                 /\ OnlyBucketIncremented(underPerSf, underPerSf', sf)
                 /\ UNCHANGED <<nInterf, nNoMore, nBusy,
                                interfPerSf, noMorePerSf, busyPerSf>>
                 /\ LossFrame
         /\ NoMore(pktId, sf, p)
              => /\ nNoMore' = nNoMore + 1
                 /\ OnlyBucketIncremented(noMorePerSf, noMorePerSf', sf)
                 /\ UNCHANGED <<nInterf, nUnder, nBusy,
                                interfPerSf, underPerSf, busyPerSf>>
                 /\ LossFrame
         /\ Busy(pktId, sf, p)
              => /\ nBusy' = nBusy + 1
                 /\ OnlyBucketIncremented(busyPerSf, busyPerSf', sf)
                 /\ UNCHANGED <<nInterf, nUnder, nNoMore,
                                interfPerSf, underPerSf, noMorePerSf>>
                 /\ LossFrame]_vars

\* packet 1 was sent and then lost at the gateway for want of a free
\* reception path, at SF7
C20_Witness ==
  /\ Tracked(1)
  /\ nSent = 1 /\ nRec = 0
  /\ nLost = 1 /\ nBusy = 1
  /\ nInterf = 0 /\ nUnder = 0 /\ nNoMore = 0
  /\ busyPerSf = <<1, 0, 0, 0, 0, 0>>
  /\ interfPerSf = ZeroVec(NumSf) /\ expPerSf = ZeroVec(NumSf)
\* C21: the first delivery of a tracked IMR or PCC packet adds its delay to
\* sumDelay and its receive power and SNR to sumRssi and sumSnr; if the
\* delay is over the class maximum it increments nExpired and the bucket of
\* its spreading factor in expPerSf and leaves nRec, nImrRec, nPccRec and
\* nRecPerHour; otherwise it increments nRec, the received counter of its
\* class and nRecPerHour and leaves nExpired and expPerSf.  (Only the
\* first delivery of a packet changes sumRssi.)
C21_LateCountsAsExpired ==
  [][sumRssi' # sumRssi =>
       \A pktId \in PktIds, sf \in SFs, p \in RxPowers :
         (/\ Tracked(pktId)
          /\ pktInfoMap[pktId].m_delay = -1
          /\ MsgTypeOf(pktId) \in {"IMR", "PCC"}
          /\ Ok(pktId, sf, p))
         => LET delay == now - pktInfoMap[pktId].m_txTime
                imr == MsgTypeOf(pktId) = "IMR"
                late == delay > (IF imr THEN 60000 ELSE 1000)
            IN /\ sumDelay' = sumDelay + delay
               /\ sumRssi' = sumRssi + p
               /\ sumSnr' = sumSnr + RxPowerToSNR(p)
               /\ IF late
                    THEN /\ nExpired' = nExpired + 1
                         /\ OnlyBucketIncremented(expPerSf, expPerSf', sf)
                         /\ UNCHANGED <<nRec, nImrRec, nPccRec,
                                        nRecPerHour>>
                    ELSE /\ nRec' = nRec + 1
                         /\ nRecPerHour' = nRecPerHour + 1
                         /\ nImrRec' = nImrRec + (IF imr THEN 1 ELSE 0)
                         /\ nPccRec' = nPccRec + (IF imr THEN 0 ELSE 1)
                         /\ UNCHANGED <<nExpired, expPerSf>>]_vars

\* the PCC packet was delivered once, at SF12, 1001 ms after it was sent
C21_Witness ==
  /\ Tracked(2)
  /\ StatusOf(2) = "EXPIRED"
  /\ nExpired = 1 /\ expPerSf = <<0, 0, 0, 0, 0, 1>>
  /\ nRec = 0 /\ nPccRec = 0 /\ nRecPerHour = 0
  /\ sumDelay = 1001 /\ sumRssi = -120000
  /\ nTotalPkts = 1
\* the devices that have an energy model, and the sum of what they report
WithModel == {d \in EdIds : energy[d] # NoModel}
RECURSIVE SumOver(_)
SumOver(devices) ==
  IF devices = {} THEN 0
  ELSE LET d == CHOOSE x \in devices : TRUE
       IN energy[d] + SumOver(devices \ {d})

\* C22: whatever the order of the devices in the container and whatever
\* the total was before, CalcEnergyConsumption leaves in consumption the
\* sum of the energies of exactly the devices that have an energy model; a
\* device without one adds nothing.
C22_EnergyIsSumOfModels ==
  [][\A order \in DeviceOrders :
       CalcEnergyConsumption(order) => consumption' = SumOver(WithModel)]_vars

\* device 0 has no energy model and device 1 has consumed 11 mJ, 6 mJ of
\* them since an earlier collection: the total is that of device 1 alone
C22_Witness ==
  /\ energy[0] = NoModel
  /\ energy[1] = 11
  /\ consumption = 11
\* C23: the delay of a packet is measured from its first Sent event: the
\* first Sent event for an id stamps the new record with the time of the
\* event, no later step of the run changes that stamp, retransmissions
\* included, and the first delivery stores now - m_txTime as the delay.
C23_DelayFromFirstSend ==
  [][pktInfoMap' # pktInfoMap /\ phase' = "run" =>
       \A pktId \in PktIds :
         /\ (~Tracked(pktId) /\ pktId \in DOMAIN pktInfoMap')
              => pktInfoMap'[pktId].m_txTime = now
         /\ Tracked(pktId)
              => /\ pktId \in DOMAIN pktInfoMap'
                 /\ pktInfoMap'[pktId].m_txTime = pktInfoMap[pktId].m_txTime
         /\ (Tracked(pktId) /\ pktInfoMap[pktId].m_delay = -1
                /\ pktInfoMap'[pktId].m_delay # -1)
              => pktInfoMap'[pktId].m_delay
                   = now - pktInfoMap[pktId].m_txTime]_vars

\* packet 1 was sent at 1 ms, sent again later and delivered at 60001 ms:
\* its delay is 60000 ms
C23_Witness ==
  /\ Tracked(1)
  /\ pktInfoMap[1].m_txTime = 1
  /\ pktInfoMap[1].m_delay = 60000
  /\ nRetx = 1
  /\ now = 60001
\* C24: while the run lasts nLost = nInterf + nUnder + nNoMore + nBusy,
\* every cause counter is the sum of the six buckets of its vector, and
\* nExpired is the sum of the buckets of expPerSf.
C24_CounterHierarchy ==
  phase = "run" =>
    /\ nLost = nInterf + nUnder + nNoMore + nBusy
    /\ nInterf = SumSeq(interfPerSf)
    /\ nUnder = SumSeq(underPerSf)
    /\ nNoMore = SumSeq(noMorePerSf)
    /\ nBusy = SumSeq(busyPerSf)
    /\ nExpired = SumSeq(expPerSf)

\* one packet expired at SF7 and one was lost at SF12 for want of a receiver
C24_Witness ==
  /\ phase = "run"
  /\ nExpired = 1 /\ expPerSf[1] = 1
  /\ nLost = 1 /\ nNoMore = 1 /\ noMorePerSf[6] = 1
  /\ nInterf = 0 /\ nUnder = 0 /\ nBusy = 0
\* C25: in every reachable state, after ClearData too, each of interfPerSf,
\* underPerSf, noMorePerSf, busyPerSf and expPerSf has its six buckets and
\* delayPerApp its two, so that bucket sf - 7 for sf in 7..12 and the
\* entries 0 and 1 of delayPerApp exist.
C25_VectorsKeepTheirSize ==
  /\ \A vec \in {interfPerSf, underPerSf, noMorePerSf, busyPerSf, expPerSf} :
        /\ Len(vec) = NumSf
        /\ \A sf \in 7..12 : GetIndexBasedOnSf(sf) + 1 \in DOMAIN vec
  /\ Len(delayPerApp) = NumApps
\* a value of the report, kept as numerator and denominator, is in [0, 100]
IsPercentage(q) == IsFinite(q) /\ q[1] >= 0 /\ q[1] <= 100 * q[2]

\* C26: in every reachable state each of the five loss shares of PrintLoss
\* (interference, under sensitivity, no more receivers, busy gateway,
\* expired; the counter over nLost times 100 when nLost > 0, else 0) is
\* between 0 and 100.
C26_LossSharesInRange ==
  \A n \in {nInterf, nUnder, nNoMore, nBusy, nExpired} :
     IsPercentage(LossShare(n))
\* C27: in every reachable state nRecAck <= nRec, so that the
\* confirmed-delivery ratio cpsr = nRecAck / nRec * 100 of PrintMainData is
\* between 0 and 100.
C27_AckedAtMostDelivered ==
  /\ nRecAck <= nRec
  /\ IsPercentage(Cpsr)
\* C28: in every reachable state of a run sumDelay is the sum of the two
\* per-class delay totals, delayPerApp[0] + delayPerApp[1] (entries 1 and 2
\* of the sequence here).
C28_DelayIsSumOfClasses ==
  phase = "run" => sumDelay = delayPerApp[1] + delayPerApp[2]
Max0(n) == IF n > 0 THEN n ELSE 0

\* C29: with sfa = "asfa", an interference loss of a tracked packet received
\* with spreading factor s in 7..12 sets the data rate of the sender to
\* max(0, (12 - s) - 1), one step below the data rate of the lost packet
\* with a floor at 0; the value is in 0..4 and is the one the arithmetic
\* gives without wrapping in 8 bits.
C29_RateSteppedDownWithFloor ==
  [][/\ \A s \in 7..12 :
          /\ AsfaDataRate(s) = Max0((12 - s) - 1)
          /\ AsfaDataRate(s) \in 0..4
     /\ nInterf' # nInterf /\ sfa = "asfa"
          => \A pktId \in PktIds, sf \in SFs, p \in RxPowers :
               Tracked(pktId) /\ Interf(pktId, sf, p)
                 => /\ dataRate'[GetEdId(pktId)] = Max0((12 - sf) - 1)
                    /\ dataRate'[GetEdId(pktId)] \in 0..4]_vars

\* packet 1 of device 0, received with SF7 (data rate 5), is lost to
\* interference: the device is set to data rate 4
C29_Witness ==
  /\ sfa = "asfa" /\ Tracked(1) /\ GetEdId(1) = 0
  /\ nInterf = 1 /\ interfPerSf = <<1, 0, 0, 0, 0, 0>>
  /\ dataRate[0] = 4
  /\ phase = "run"

=============================================================================
